---------------------------- MODULE Spec2Model ----------------------------
(***************************************************************************)
(* Graph assembly of the Cypher router (app/routers/cypher.py): the value  *)
(* walker _extract_graph_elements, the two identity-keyed registries, the  *)
(* union-find partitioner _find_connected_components and the response of   *)
(* execute_cypher with its query validation and its error handler; the    *)
(* node conversion and the property search of app/routers/search.py; two   *)
(* invocations of execute_cypher interleaved on one event loop.  The       *)
(* path merge mode of the network router is modelled from the written      *)
(* specification (its source is not part of the tree).                     *)
(***************************************************************************)
EXTENDS Integers, Sequences, FiniteSets, TLC

VARIABLES
    endpoint,   \* which handler serves the request: "cypher" or "network"
    rows,       \* the rows of the result stream drained so far
    nodes,      \* node registry: insertion-ordered dict element_id -> GraphNode
    links,      \* link registry: insertion-ordered dict element_id -> GraphLink
    pc,         \* "walking" while the stream is drained, then "done"
    response,   \* the handler's answer once pc = "done"
    request,    \* the parameters of the request being served
    queries,    \* the queries run against the database session, in order
    heap,       \* the objects of a result value, by reference
    stack,      \* the call stack of the walker over the heap
    calls,      \* the invocations of execute_cypher on one event loop
    raised      \* the exception raised inside the try block, if any

vars == <<endpoint, rows, nodes, links, pc, response, request, queries,
          heap, stack, calls, raised>>

\* what the handlers of the graph assembly leave alone
aux == <<request, queries, heap, stack, calls, raised>>

-----------------------------------------------------------------------------
(* Bounds of the model *)

\* rows drained from one result stream
MaxRows == 2

\* links in a registry handed to the assembly on its own
MaxRegLinks == 2

-----------------------------------------------------------------------------
(* Identities: opaque strings (element_id); "" is what a link gets for an  *)
(* endpoint the driver did not supply.                                      *)

NodeIds == {"n1", "n2", "n3"}

LinkIds == {"r1", "r2"}

LinkIdSeq == <<"r1", "r2", "r3">>

-----------------------------------------------------------------------------
(* Raw values of a result row.  A python dict is a sequence of key/value   *)
(* entries (dicts keep insertion order).                                   *)

None == [kind |-> "none"]

Scalar(x) == [kind |-> "scalar", v |-> x]

Node(id, labels, props) ==
    [kind |-> "node", element_id |-> id, labels |-> labels, props |-> props]

Rel(id, type, start, end, props) ==
    [kind |-> "rel", element_id |-> id, type |-> type,
     start_node |-> start, end_node |-> end, props |-> props]

Path(ns, rs) == [kind |-> "path", nodes |-> ns, relationships |-> rs]

List(items) == [kind |-> "list", items |-> items]

Dict(entries) == [kind |-> "dict", entries |-> entries]

Entry(k, v) == [k |-> k, v |-> v]

-----------------------------------------------------------------------------
(* Small helpers on sequences and dicts *)

Range(s) == {s[i] : i \in DOMAIN s}

Keys(reg) == {reg[i].id : i \in DOMAIN reg}

RECURSIVE SeqFilter(_, _)
SeqFilter(s, keep) ==
    IF s = <<>> THEN <<>>
    ELSE IF Head(s) \in keep THEN <<Head(s)>> \o SeqFilter(Tail(s), keep)
    ELSE SeqFilter(Tail(s), keep)

\* dict.pop(key, default): the value under key, or the default
PopValue(props, key, default) ==
    IF \E i \in DOMAIN props : props[i].k = key
    THEN (CHOOSE e \in Range(props) : e.k = key).v
    ELSE default

\* dict.pop(key, default): the entries left, in order
PopRest(props, key) == SeqFilter(props, {e \in Range(props) : e.k # key})

\* needle in text, on strings: the needle is a substring of the text
Contains(q, keyword) ==
    \E i \in 1..(Len(q) - Len(keyword) + 1) :
        SubSeq(q, i, i + Len(keyword) - 1) = keyword

\* dict.values()
DictValues(entries) == [i \in DOMAIN entries |-> entries[i].v]

-----------------------------------------------------------------------------
(* Shape dispatch of the walker (hasattr / isinstance tests) *)

IsNode(value) == value.kind = "node"

IsRelationship(value) == value.kind = "rel"

IsPath(value) == value.kind = "path"

IsList(value) == value.kind = "list"

IsDict(value) == value.kind = "dict"

\* Python truth value of  value.start_node / value.end_node : None is false,
\* and a graph entity is a Mapping over its properties (dict(value) reads
\* them), node and relationship alike, so an entity without properties has
\* length 0 and is false too.
Truthy(obj) ==
    /\ obj.kind # "none"
    /\ (IsNode(obj) \/ IsRelationship(obj)) => Len(obj.props) > 0

-----------------------------------------------------------------------------
(* _extract_graph_elements *)

GraphNode(value) ==
    [id         |-> value.element_id,
     node_id    |-> PopValue(value.props, "node_id", 0),
     label      |-> IF value.labels # <<>> THEN value.labels[1] ELSE "Unknown",
     properties |-> PopRest(value.props, "node_id")]

GraphLink(value) ==
    [id         |-> value.element_id,
     source     |-> IF Truthy(value.start_node)
                    THEN value.start_node.element_id ELSE "",
     target     |-> IF Truthy(value.end_node)
                    THEN value.end_node.element_id ELSE "",
     type       |-> value.type,
     properties |-> value.props]

\* a slip: the node is appended without the membership test
InsertNodeAlways(value, R) == [R EXCEPT !.nodes = Append(@, GraphNode(value))]

\* a slip: nodes[element_id] is assigned on every encounter
InsertNodeOverwrite(value, R) ==
    IF value.element_id \notin Keys(R.nodes)
    THEN [R EXCEPT !.nodes = Append(@, GraphNode(value))]
    ELSE [R EXCEPT !.nodes =
            [i \in DOMAIN @ |->
                IF @[i].id = value.element_id THEN GraphNode(value) ELSE @[i]]]

RECURSIVE _extract_graph_elements(_, _)
RECURSIVE ExtractAll(_, _)

\* a slip: the list held by the property "related" of a node is walked too
InsertNodeWalkingRelated(value, R) ==
    LET R1 == IF value.element_id \notin Keys(R.nodes)
              THEN [R EXCEPT !.nodes = Append(@, GraphNode(value))]
              ELSE R
    IN  IF \E i \in DOMAIN value.props : value.props[i].k = "related"
        THEN ExtractAll(<<PopValue(value.props, "related", 0)>>, R1)
        ELSE R1

\* the insert of a node value: first write wins
InsertNode(value, R) ==
    IF value.element_id \notin Keys(R.nodes)
    THEN [R EXCEPT !.nodes = Append(@, GraphNode(value))]
    ELSE R

\* the insert of a relationship value, without its endpoints
InsertLink(value, R) == [R EXCEPT !.links = Append(@, GraphLink(value))]

\* for item in seq: _extract_graph_elements(item, nodes, links)
ExtractAll(seq, R) ==
    IF seq = <<>> THEN R
    ELSE ExtractAll(Tail(seq), _extract_graph_elements(Head(seq), R))

\* a slip: the end node is extracted before the start node
ExtractEndpointsEndFirst(value, R) ==
    LET R1 == IF Truthy(value.end_node)
              THEN _extract_graph_elements(value.end_node, R) ELSE R
    IN  IF Truthy(value.start_node)
        THEN _extract_graph_elements(value.start_node, R1) ELSE R1

\* the start and end node of a new relationship
ExtractEndpoints(value, R) ==
    LET R1 == IF Truthy(value.start_node)
              THEN _extract_graph_elements(value.start_node, R) ELSE R
    IN  IF Truthy(value.end_node)
        THEN _extract_graph_elements(value.end_node, R1) ELSE R1

\* a slip: the endpoints of a relationship are extracted on every encounter
_extract_graph_elements_endpoints_always(value, R) ==
    IF value.kind = "none" THEN R
    ELSE IF IsNode(value) THEN InsertNode(value, R)
    ELSE IF IsRelationship(value) THEN
        IF value.element_id \notin Keys(R.links)
        THEN ExtractEndpoints(value, InsertLink(value, R))
        ELSE ExtractEndpoints(value, R)
    ELSE IF IsPath(value) THEN
        ExtractAll(value.relationships, ExtractAll(value.nodes, R))
    ELSE IF IsList(value) THEN ExtractAll(value.items, R)
    ELSE IF IsDict(value) THEN ExtractAll(DictValues(value.entries), R)
    ELSE R

\* a slip: the relationships of a path are extracted before its nodes
_extract_graph_elements_edges_first(value, R) ==
    IF value.kind = "none" THEN R
    ELSE IF IsNode(value) THEN InsertNode(value, R)
    ELSE IF IsRelationship(value) THEN
        IF value.element_id \notin Keys(R.links)
        THEN ExtractEndpoints(value, InsertLink(value, R))
        ELSE R
    ELSE IF IsPath(value) THEN
        ExtractAll(value.nodes, ExtractAll(value.relationships, R))
    ELSE IF IsList(value) THEN ExtractAll(value.items, R)
    ELSE IF IsDict(value) THEN ExtractAll(DictValues(value.entries), R)
    ELSE R

_extract_graph_elements(value, R) ==
    IF value.kind = "none" THEN R
    ELSE IF IsNode(value) THEN InsertNode(value, R)
    ELSE IF IsRelationship(value) THEN
        IF value.element_id \notin Keys(R.links)
        THEN ExtractEndpoints(value, InsertLink(value, R))
        ELSE R
    ELSE IF IsPath(value) THEN
        ExtractAll(value.relationships, ExtractAll(value.nodes, R))
    ELSE IF IsList(value) THEN ExtractAll(value.items, R)
    ELSE IF IsDict(value) THEN ExtractAll(DictValues(value.entries), R)
    ELSE R

-----------------------------------------------------------------------------
(* _find_connected_components *)

\* parent = {node_id: node_id for node_id in nodes}
InitParent(ns) == [id \in Keys(ns) |-> id]

\* a slip: the compression writes parent[x] = x
RECURSIVE find_detaching(_, _)
find_detaching(parent, x) ==
    IF parent[x] # x
    THEN LET f == find_detaching(parent, parent[x])
         IN  [parent |-> [f.parent EXCEPT ![x] = x], root |-> f.root]
    ELSE [parent |-> parent, root |-> x]

\* find(x) with path compression: the parent map it leaves and the root
RECURSIVE find(_, _)
find(parent, x) ==
    IF parent[x] # x
    THEN LET f == find(parent, parent[x])
         IN  [parent |-> [f.parent EXCEPT ![x] = f.root], root |-> f.root]
    ELSE [parent |-> parent, root |-> x]

\* a slip: the test of the roots is inverted, so nothing is ever attached
union_inverted(parent, x, y) ==
    LET fx == find(parent, x)
        fy == find(fx.parent, y)
    IN  IF fx.root = fy.root
        THEN [fy.parent EXCEPT ![fx.root] = fy.root]
        ELSE fy.parent

\* a slip: parent[x] = find(y), x is taken out of the set it was in
union_unrooted(parent, x, y) ==
    LET fx == find(parent, x)
        fy == find(fx.parent, y)
    IN  IF fx.root # fy.root
        THEN [fy.parent EXCEPT ![x] = fy.root]
        ELSE fy.parent

\* union(x, y): parent[find(x)] = find(y) when the roots differ
union(parent, x, y) ==
    LET fx == find(parent, x)
        fy == find(fx.parent, y)
    IN  IF fx.root # fy.root
        THEN [fy.parent EXCEPT ![fx.root] = fy.root]
        ELSE fy.parent

\* the guard of the union loop: both endpoints are keys of the node registry
BothEndpointsIn(link, ids) == link.source \in ids /\ link.target \in ids

\* for link in links.values(): union the endpoints when both are nodes
RECURSIVE UnionLinks(_, _, _)
UnionLinks(parent, ls, ids) ==
    IF ls = <<>> THEN parent
    ELSE LET link == Head(ls)
         IN  UnionLinks(IF BothEndpointsIn(link, ids)
                        THEN union(parent, link.source, link.target)
                        ELSE parent,
                        Tail(ls), ids)

\* a slip: components[root] = [node_id] instead of append
AppendToOverwrite(components, root, node_id) ==
    IF \E i \in DOMAIN components : components[i].root = root
    THEN [i \in DOMAIN components |->
            IF components[i].root = root
            THEN [components[i] EXCEPT !.ids = <<node_id>>]
            ELSE components[i]]
    ELSE Append(components, [root |-> root, ids |-> <<node_id>>])

\* components[root].append(node_id): a defaultdict(list), insertion-ordered
AppendTo(components, root, node_id) ==
    IF \E i \in DOMAIN components : components[i].root = root
    THEN [i \in DOMAIN components |->
            IF components[i].root = root
            THEN [components[i] EXCEPT !.ids = Append(@, node_id)]
            ELSE components[i]]
    ELSE Append(components, [root |-> root, ids |-> <<node_id>>])

\* for node_id in nodes: components[find(node_id)].append(node_id)
RECURSIVE GroupByRoot(_, _, _)
GroupByRoot(parent, ids, components) ==
    IF ids = <<>> THEN components
    ELSE LET f == find(parent, Head(ids))
         IN  GroupByRoot(f.parent, Tail(ids),
                         AppendTo(components, f.root, Head(ids)))

\* nodes[nid]
Lookup(reg, id) == CHOOSE e \in Range(reg) : e.id = id

\* a slip: "or" for "and" in the filter of a component's links
ComponentLinksEither(ls, component_node_set) ==
    SeqFilter(ls, {l \in Range(ls) : l.source \in component_node_set
                                       \/ l.target \in component_node_set})

\* a slip: only the source is tested in the filter of a component's links
ComponentLinksSourceOnly(ls, component_node_set) ==
    SeqFilter(ls, {l \in Range(ls) : l.source \in component_node_set})

\* a slip: a link from a node to itself is left out
ComponentLinksNoSelfLoops(ls, component_node_set) ==
    SeqFilter(ls, {l \in Range(ls) : /\ BothEndpointsIn(l, component_node_set)
                                       /\ l.source # l.target})

\* the links of one component: both endpoints in the component's node set
ComponentLinks(ls, component_node_set) ==
    SeqFilter(ls, {l \in Range(ls) : BothEndpointsIn(l, component_node_set)})

\* SubgraphResponse(nodes=component_nodes, links=component_links)
BuildSubgraph(component_node_ids, ns, ls) ==
    [nodes |-> [i \in DOMAIN component_node_ids |->
                    Lookup(ns, component_node_ids[i])],
     links |-> ComponentLinks(ls, Range(component_node_ids))]

\* a slip: c is put after its equals, so equal sizes come out reversed
RECURSIVE InsertBySizeAfterEquals(_, _)
InsertBySizeAfterEquals(c, sorted) ==
    IF sorted = <<>> THEN <<c>>
    ELSE IF Len(Head(sorted).nodes) >= Len(c.nodes)
         THEN <<Head(sorted)>> \o InsertBySizeAfterEquals(c, Tail(sorted))
         ELSE <<c>> \o sorted

\* insert c into a sequence sorted by node count descending, before its equals
RECURSIVE InsertBySize(_, _)
InsertBySize(c, sorted) ==
    IF sorted = <<>> THEN <<c>>
    ELSE IF Len(Head(sorted).nodes) > Len(c.nodes)
         THEN <<Head(sorted)>> \o InsertBySize(c, Tail(sorted))
         ELSE <<c>> \o sorted

\* a slip: the sorted list is discarded and the grouping order returned
SortBySizeSkipped(result) == result

\* result.sort(key=lambda c: len(c.nodes), reverse=True): a stable sort,
\* components of equal size keep their order
RECURSIVE SortBySize(_)
SortBySize(result) ==
    IF result = <<>> THEN <<>>
    ELSE InsertBySize(Head(result), SortBySize(Tail(result)))

\* a slip: the guard for an empty registry answers one empty subgraph
_find_connected_components_empty_subgraph(ns, ls) ==
    IF ns = <<>> THEN <<[nodes |-> <<>>, links |-> <<>>]>>
    ELSE LET ids        == [i \in DOMAIN ns |-> ns[i].id]
             parent     == UnionLinks(InitParent(ns), ls, Keys(ns))
             components == GroupByRoot(parent, ids, <<>>)
             result     == [i \in DOMAIN components |->
                               BuildSubgraph(components[i].ids, ns, ls)]
         IN  SortBySize(result)

_find_connected_components(ns, ls) ==
    IF ns = <<>> THEN <<>>
    ELSE LET ids        == [i \in DOMAIN ns |-> ns[i].id]
             parent     == UnionLinks(InitParent(ns), ls, Keys(ns))
             components == GroupByRoot(parent, ids, <<>>)
             result     == [i \in DOMAIN components |->
                               BuildSubgraph(components[i].ids, ns, ls)]
         IN  SortBySize(result)

-----------------------------------------------------------------------------
(* The values a result stream may carry *)

\* a node as the driver returns it when the query returns the node
FullNode(id) ==
    Node(id, <<"entity">>, <<Entry("node_id", 7), Entry("name", 1)>>)

\* a node the driver knows only by identity (no labels, no properties)
BareNode(id) == Node(id, <<>>, <<>>)

\* the same node seen with other labels and properties
AltNode(id) == Node(id, <<"officer", "entity">>, <<Entry("name", 2)>>)

NodeObjs ==
    {FullNode(id) : id \in NodeIds} \cup {BareNode(id) : id \in NodeIds}
    \cup {AltNode(id) : id \in NodeIds}

\* start and end node of a relationship value
EndpointPairs ==
    {<<FullNode(a), FullNode(b)>> : a, b \in NodeIds}
    \cup {<<None, FullNode("n2")>>, <<BareNode("n1"), FullNode("n2")>>,
          <<FullNode("n3"), None>>, <<None, None>>, <<None, BareNode("n2")>>}

RelObjs ==
    {Rel(id, "officer_of", pr[1], pr[2], <<Entry("since", 1)>>) :
        id \in LinkIds, pr \in EndpointPairs}

PathObjs ==
    {Path(<<FullNode("n1"), FullNode("n2")>>,
          <<Rel("r1", "officer_of", FullNode("n1"), FullNode("n2"), <<>>)>>),
     Path(<<FullNode("n1")>>,
          <<Rel("r2", "officer_of", FullNode("n2"), FullNode("n3"), <<>>)>>),
     Path(<<BareNode("n3"), FullNode("n1")>>, <<>>)}

\* a node and a relationship met again with other contents
SecondSight ==
    List(<<AltNode("n1"),
           Rel("r1", "registered_at", AltNode("n3"), BareNode("n3"), <<>>)>>)

ContainerObjs ==
    {List(<<>>), SecondSight,
     List(<<FullNode("n3"), None, Scalar(1), List(<<BareNode("n2")>>)>>),
     Dict(<<Entry("a", Scalar(1)),
            Entry("b", Rel("r2", "officer_of", None, FullNode("n1"), <<>>))>>)}

\* a node whose one property holds a list with a node value in it
NestedNode ==
    Node("n2", <<"entity">>, <<Entry("related", List(<<FullNode("n3")>>))>>)

\* record.values() of one row: the column values in order
RowPool ==
    {<<v>> : v \in {None, Scalar(1), NestedNode} \cup NodeObjs \cup RelObjs
                   \cup PathObjs \cup ContainerObjs}
    \cup {<<FullNode("n1"),
            Rel("r1", "officer_of", FullNode("n2"), FullNode("n1"), <<>>),
            FullNode("n2")>>}

-----------------------------------------------------------------------------
(* Handlers *)

NoResponse == [status |-> 0]

\* no exception was raised
NoError == [type |-> "none"]

NoRequest == [kind |-> "none"]

\* a request arrives: nodes = {}, links = {}
Init ==
    /\ endpoint \in {"cypher", "network"}
    /\ rows = <<>>
    /\ nodes = <<>>
    /\ links = <<>>
    /\ pc = "walking"
    /\ response = NoResponse
    /\ request = NoRequest
    /\ queries = <<>>
    /\ heap = <<>>
    /\ stack = <<>>
    /\ calls = <<>>
    /\ raised = NoError

\* async for record in result: for value in record.values(): extract
ExtractRow ==
    /\ pc = "walking"
    /\ Len(rows) < MaxRows
    /\ \E row \in RowPool :
          LET R == ExtractAll(row, [nodes |-> nodes, links |-> links])
          IN  /\ rows' = Append(rows, row)
              /\ nodes' = R.nodes
              /\ links' = R.links
    /\ UNCHANGED <<endpoint, pc, response>>
    /\ UNCHANGED aux

RECURSIVE SumOf(_)
SumOf(counts) == IF counts = <<>> THEN 0 ELSE Head(counts) + SumOf(Tail(counts))

\* a variant: total_links counts the links of the components
ConnectedComponentsResponseEmitted(ns, ls) ==
    LET components == _find_connected_components(ns, ls)
    IN  [status          |-> 200,
         components      |-> components,
         total_nodes     |-> Len(ns),
         total_links     |-> SumOf([i \in DOMAIN components |->
                                      Len(components[i].links)]),
         component_count |-> Len(components)]

\* ConnectedComponentsResponse(components, total_nodes, total_links, ...)
ConnectedComponentsResponse(ns, ls) ==
    LET components == _find_connected_components(ns, ls)
    IN  [status          |-> 200,
         components      |-> components,
         total_nodes     |-> Len(ns),
         total_links     |-> Len(ls),
         component_count |-> Len(components)]

\* execute_cypher once the stream is exhausted
execute_cypher ==
    /\ pc = "walking"
    /\ endpoint = "cypher"
    /\ response' = ConnectedComponentsResponse(nodes, links)
    /\ pc' = "done"
    /\ UNCHANGED <<endpoint, rows, nodes, links>>
    /\ UNCHANGED aux

\* a variant: the merged subgraph keeps only links with registered endpoints
AssembleMergedFiltered(ns, ls) ==
    IF ns = <<>> /\ ls = <<>>
    THEN [status |-> 404]
    ELSE [status |-> 200, nodes |-> ns,
          links |-> SeqFilter(ls, {l \in Range(ls) : BothEndpointsIn(l, Keys(ns))})]

\* a variant: an empty subgraph is answered where nothing was extracted
AssembleMergedEmptySubgraph(ns, ls) ==
    [status |-> 200, nodes |-> ns, links |-> ls]

\* path merge mode: one subgraph holding both registries, or not found
AssembleMerged(ns, ls) ==
    IF ns = <<>> /\ ls = <<>>
    THEN [status |-> 404]
    ELSE [status |-> 200, nodes |-> ns, links |-> ls]

\* the network handlers once every path is walked
RespondNetwork ==
    /\ pc = "walking"
    /\ endpoint = "network"
    /\ response' = AssembleMerged(nodes, links)
    /\ pc' = "done"
    /\ UNCHANGED <<endpoint, rows, nodes, links>>
    /\ UNCHANGED aux

\* what session.run, the iteration of the result and the walk may raise: an
\* Exception with its message, or the CancelledError of the serving task
Exceptions ==
    {[type |-> "Exception", message |-> m] :
        m \in {<<"timeout">>, <<"Authentication", " ", "failure">>,
               <<"bad", "PASSWORD">>}}
    \cup {[type |-> "CancelledError", message |-> <<>>]}

LowerOf(a) ==
    CASE a = "Authentication" -> "authentication"
      [] a = "PASSWORD"       -> "password"
      [] OTHER                -> a

\* a slip: the message is searched as it is
lower_omitted(m) == m

\* str.lower()
lower(m) == [i \in DOMAIN m |-> LowerOf(m[i])]

\* error_message = str(e), replaced when it names authentication or password
error_message(e) ==
    IF \/ Contains(lower(e.message), <<"authentication">>)
       \/ Contains(lower(e.message), <<"password">>)
    THEN <<"Database authentication error">>
    ELSE e.message

\* a variant: an exception of the stream only ends the walk, and the rows
\* drained so far are assembled
ExceptionResponseAssembled(ns, ls, e) == ConnectedComponentsResponse(ns, ls)

\* except Exception as e: raise HTTPException(status_code=500, ...)
ExceptionResponse(ns, ls, e) ==
    [status |-> 500,
     detail |-> <<"Query execution failed: ">> \o error_message(e)]

\* the run of the query, or the wait for the next row, raises: an Exception
\* (a timeout, a lost connection, an error of the query) is caught by the
\* handler; a CancelledError of the serving task is no Exception and leaves
\* the handler without an answer
StreamRaises ==
    /\ pc = "walking"
    /\ endpoint = "cypher"
    /\ \E e \in Exceptions :
          /\ raised' = e
          /\ IF e.type = "Exception"
             THEN /\ response' = ExceptionResponse(nodes, links, e)
                  /\ pc' = "failed"
             ELSE /\ response' = response
                  /\ pc' = "cancelled"
    /\ UNCHANGED <<endpoint, rows, nodes, links>>
    /\ UNCHANGED <<request, queries, heap, stack, calls>>

Next == ExtractRow \/ execute_cypher \/ RespondNetwork \/ StreamRaises

Spec == Init /\ [][Next]_vars

-----------------------------------------------------------------------------
(* The assembly on its own: any pair of registries *)

RECURSIVE Perms(_)
Perms(S) ==
    IF S = {} THEN {<<>>}
    ELSE UNION {{<<x>> \o p : p \in Perms(S \ {x})} : x \in S}

\* node registries: every order of every subset of the identities
NodeRegistries ==
    UNION {{[i \in DOMAIN p |-> GraphNode(FullNode(p[i]))] : p \in Perms(S)} :
              S \in SUBSET NodeIds}

\* link registries: endpoints are any identity, registered or not, or ""
LinkRegistries ==
    UNION {[1..k -> [source : NodeIds \cup {""}, target : NodeIds \cup {""}]] :
              k \in 0..MaxRegLinks}

AsLinks(es) ==
    [i \in DOMAIN es |->
        [id |-> LinkIdSeq[i], source |-> es[i].source, target |-> es[i].target,
         type |-> "officer_of", properties |-> <<>>]]

\* _find_connected_components(nodes, links) called on the pair
InitAssembly ==
    /\ endpoint = "cypher"
    /\ rows = <<>>
    /\ nodes \in NodeRegistries
    /\ \E es \in LinkRegistries : links = AsLinks(es)
    /\ pc = "walking"
    /\ response = NoResponse
    /\ request = NoRequest
    /\ queries = <<>>
    /\ heap = <<>>
    /\ stack = <<>>
    /\ calls = <<>>
    /\ raised = NoError

NextAssembly == execute_cypher

SpecAssembly == InitAssembly /\ [][NextAssembly]_vars

-----------------------------------------------------------------------------
(* The search router (app/routers/search.py): the node conversion and the  *)
(* property search with its allow-list.                                     *)

\* records returned to one search
MaxRecords == 1

\* a property whose value is not a python int: t names what it is, "digits"
\* for a string spelling the number v, "str" for any other string (v is then
\* an opaque code of the text)
TypedEntry(k, t, v) == [k |-> k, v |-> v, t |-> t]

TypeOf(e) == IF "t" \in DOMAIN e THEN e.t ELSE "int"

\* the python type of what  properties.pop("node_id", 0)  returns
NodeIdType(value) ==
    IF \E i \in DOMAIN value.props : value.props[i].k = "node_id"
    THEN TypeOf(CHOOSE e \in Range(value.props) : e.k = "node_id")
    ELSE "int"

\* validation of the field  node_id: int  when a GraphNode is constructed:
\* an int is taken, a string of digits is coerced to the number it spells,
\* any other string is refused with a ValidationError
ValidNodeId(value) == NodeIdType(value) \in {"int", "digits"}

\* the conversion of one node: the GraphNode, or the exception of its
\* constructor
_neo4j_node_to_graph_node(record) ==
    IF ValidNodeId(record.n)
    THEN [raised |-> FALSE, node |-> GraphNode(record.n)]
    ELSE [raised |-> TRUE]

allowed_properties ==
    {"node_id", "name", "countries", "country_codes", "sourceID",
     "valid_until", "note", "status", "address", "internal_id",
     "original_name", "former_name", "jurisdiction",
     "jurisdiction_description", "company_type", "incorporation_date",
     "inactivation_date", "struck_off_date", "dorm_date", "service_provider",
     "ibcRUC"}

\* a variant: the allow-list is matched without regard to case and blanks
NotAllowedLoose(property_name) ==
    property_name \notin allowed_properties \cup {"Name", " name"}

\* property_name not in allowed_properties
NotAllowed(property_name) == property_name \notin allowed_properties

\* property names a client sends: allowed ones, and ones that are not
PropertyNames ==
    {"name", "countries", "ibcRUC",
     "invalid_prop", "Name", " name", "", "name IS NOT NULL OR n.name"}

\* label is None ("") or a NodeLabel
SearchRequests ==
    [kind : {"by-property"}, property_name : PropertyNames,
     exact_match : BOOLEAN, label : {"", "entity", "officer"}]

\* the f-string of the query: what is interpolated into the text, and the
\* names of the parameters handed over beside it
BuildQuery(req) ==
    [label      |-> req.label,
     where      |-> IF req.exact_match THEN "equals" ELSE "contains",
     property   |-> req.property_name,
     parameters |-> {"value", "limit"}]

\* nodes a search returns: every shape of labels and of properties, node_id
\* absent, an int, a string of digits, or another string
ConvertProps ==
    LET rests == {<<>>, <<Entry("name", 1)>>,
                  <<Entry("name", 1), Entry("status", 2)>>}
        ids   == {Entry("node_id", 7), Entry("node_id", 0),
                  TypedEntry("node_id", "digits", 42),
                  TypedEntry("node_id", "str", 1)}
    IN  rests \cup {<<e>> \o r : e \in ids, r \in rests}
              \cup {r \o <<e>> : e \in ids, r \in rests}

ConvertPool ==
    {Node("n1", ls, ps) :
        ls \in {<<>>, <<"entity">>, <<"officer", "entity">>}, ps \in ConvertProps}

\* result.data(): the records, each holding its node under the key n
RecordSeqs ==
    UNION {[1..k -> [n : ConvertPool]] : k \in 0..MaxRecords}

\* SearchResponse(nodes=[...], total=len(nodes)); an exception of a conversion
\* leaves the handler and the server answers 500
SearchResponse(records) ==
    IF \E i \in DOMAIN records : _neo4j_node_to_graph_node(records[i]).raised
    THEN [status |-> 500]
    ELSE [status |-> 200,
          nodes  |-> [i \in DOMAIN records |->
                         _neo4j_node_to_graph_node(records[i]).node],
          total  |-> Len(records)]

InitSearch ==
    /\ endpoint = "search"
    /\ request \in SearchRequests
    /\ rows = <<>>
    /\ nodes = <<>>
    /\ links = <<>>
    /\ pc = "received"
    /\ response = NoResponse
    /\ queries = <<>>
    /\ heap = <<>>
    /\ stack = <<>>
    /\ calls = <<>>
    /\ raised = NoError

\* GET /search/by-property
search_by_property ==
    /\ endpoint = "search"
    /\ pc = "received"
    /\ IF NotAllowed(request.property_name)
       THEN /\ response' = [status |-> 400]
            /\ UNCHANGED <<queries, rows>>
       ELSE \E records \in RecordSeqs :
                /\ queries' = Append(queries, BuildQuery(request))
                /\ rows' = records
                /\ response' = SearchResponse(records)
    /\ pc' = "done"
    /\ UNCHANGED <<endpoint, nodes, links, request, heap, stack, calls, raised>>

NextSearch == search_by_property

SpecSearch == InitSearch /\ [][NextSearch]_vars

-----------------------------------------------------------------------------
(* The validation of the query text in execute_cypher.  A text is a         *)
(* sequence of atoms, its characters in chunks: words of letters, a blank,  *)
(* a parenthesised pattern.  No keyword begins or ends inside an atom, so   *)
(* the substring, prefix and token tests of the code on characters are the  *)
(* same tests on atoms.                                                     *)

\* atoms of a query text
MaxQueryLen == 4

QueryAtoms ==
    {"MATCH", "CREATE", "DELETE", "DETACH", "DROP", "INDEX", "delete",
     " ", "(n)", "n"}

QueryPool == UNION {[1..k -> QueryAtoms] : k \in 0..MaxQueryLen}

\* whitespace, as str.strip() and str.split() see it
IsSpace(a) == a = " "

\* an atom made of letters only; the other atoms delimit words
IsLetters(a) == a \notin {" ", "(n)", "(N)"}

UpperOf(a) ==
    CASE a = "delete" -> "DELETE"
      [] a = "(n)"    -> "(N)"
      [] a = "n"      -> "N"
      [] OTHER        -> a

\* str.upper()
upper(q) == [i \in DOMAIN q |-> UpperOf(q[i])]

\* a slip: the text is taken as sent
strip_omitted(q) == q

\* str.strip(): without the leading and the trailing whitespace
strip(q) ==
    LET inked == {i \in DOMAIN q : ~IsSpace(q[i])}
    IN  IF inked = {} THEN <<>>
        ELSE SubSeq(q, CHOOSE i \in inked : \A j \in inked : i <= j,
                       CHOOSE i \in inked : \A j \in inked : i >= j)

\* str.startswith(k)
startswith(q, k) == Len(k) <= Len(q) /\ SubSeq(q, 1, Len(k)) = k

\* str.split(): the maximal runs without whitespace
split(q) ==
    {SubSeq(q, p[1], p[2]) :
        p \in {r \in (DOMAIN q) \X (DOMAIN q) :
                 /\ r[1] <= r[2]
                 /\ \A k \in r[1]..r[2] : ~IsSpace(q[k])
                 /\ r[1] = 1 \/ IsSpace(q[r[1] - 1])
                 /\ r[2] = Len(q) \/ IsSpace(q[r[2] + 1])}}

dangerous_keywords ==
    <<<<"DELETE">>, <<"DETACH", " ", "DELETE">>, <<"DROP">>,
      <<"CREATE", " ", "INDEX">>, <<"DROP", " ", "INDEX">>,
      <<"CREATE", " ", "CONSTRAINT">>, <<"DROP", " ", "CONSTRAINT">>>>

read_clauses ==
    {<<"MATCH">>, <<"OPTIONAL", " ", "MATCH">>, <<"WITH">>, <<"UNWIND">>,
     <<"CALL">>, <<"RETURN">>}

\* a slip: a keyword anywhere in the text is refused
ForbiddenAnywhere(query_upper) ==
    \E n \in DOMAIN dangerous_keywords :
        Contains(query_upper, dangerous_keywords[n])

\* the loop over dangerous_keywords raises: the keyword is in the text, and
\* the text starts with no read clause or holds the keyword as a token
Forbidden(query_upper) ==
    \E n \in DOMAIN dangerous_keywords :
        LET keyword == dangerous_keywords[n]
        IN  /\ Contains(query_upper, keyword)
            /\ \/ ~\E k \in read_clauses : startswith(query_upper, k)
               \/ keyword \in split(query_upper)

\* a slip: the exception is raised inside the try and its handler answers
HTTPExceptionCaught(status_code) ==
    ExceptionResponse(<<>>, <<>>, [type |-> "Exception", message |-> <<"forbidden">>])

\* raise HTTPException(status_code=...), ahead of the try
HTTPException(status_code) == [status |-> status_code]

CypherRequests == [kind : {"cypher"}, query : QueryPool]

InitQuery ==
    /\ endpoint = "cypher"
    /\ request \in CypherRequests
    /\ rows = <<>>
    /\ nodes = <<>>
    /\ links = <<>>
    /\ pc = "received"
    /\ response = NoResponse
    /\ queries = <<>>
    /\ heap = <<>>
    /\ stack = <<>>
    /\ calls = <<>>
    /\ raised = NoError

\* execute_cypher from the request to session.run(query, ...)
ValidateAndRun ==
    /\ pc = "received"
    /\ endpoint = "cypher"
    /\ LET query == strip(request.query)
       IN  IF query = <<>>
           THEN /\ response' = HTTPException(400)
                /\ pc' = "rejected"
                /\ UNCHANGED queries
           ELSE IF Forbidden(upper(query))
           THEN /\ response' = HTTPException(403)
                /\ pc' = "rejected"
                /\ UNCHANGED queries
           ELSE /\ queries' = Append(queries, query)
                /\ pc' = "walking"
                /\ UNCHANGED response
    /\ UNCHANGED <<endpoint, rows, nodes, links, request, heap, stack, calls,
                   raised>>

\* the stream of the query that is run is left empty here
NextQuery == ValidateAndRun \/ execute_cypher \/ StreamRaises

SpecQuery == InitQuery /\ [][NextQuery]_vars

-----------------------------------------------------------------------------
(* The walker call by call.  The objects of a value live on a heap and hold *)
(* references, so a value may contain itself; every call of                 *)
(* _extract_graph_elements is a frame of the interpreter's stack.           *)

\* frames the interpreter grants the walker before it raises RecursionError
MaxDepth == 4

RecursionError ==
    [type |-> "Exception", message |-> <<"maximum recursion depth exceeded">>]

Refs == {"o1", "o2", "o3"}

\* the identity of the relationship object at a reference
RelIdAt(r) == IF r = "o2" THEN "r2" ELSE "r1"

\* the objects a reference may hold; "" is None where a reference is expected
ObjectsAt(r) ==
    {None, FullNode("n1"), BareNode("n2")}
    \cup {Rel(RelIdAt(r), "officer_of", st, en, <<Entry("since", 1)>>) :
             st, en \in Refs \cup {""}}
    \cup {List(items) : items \in UNION {[1..k -> Refs] : k \in 0..2}}
    \cup {Dict(<<Entry("a", x)>>) : x \in Refs}
    \cup {Path(<<"o2">>, <<"o3">>)}

Deref(h, r) == IF r = "" THEN None ELSE h[r]

\* what the driver builds: the endpoints of a relationship are graph entities
\* or None, the members of a path are nodes and relationships
WellFormed(h) ==
    \A r \in Refs :
        /\ IsRelationship(h[r]) =>
              \A x \in {h[r].start_node, h[r].end_node} :
                  Deref(h, x).kind \in {"none", "node", "rel"}
        /\ IsPath(h[r]) =>
              /\ \A i \in DOMAIN h[r].nodes : IsNode(h[h[r].nodes[i]])
              /\ \A i \in DOMAIN h[r].relationships :
                    IsRelationship(h[h[r].relationships[i]])

HeapPool == {h \in [Refs -> UNION {ObjectsAt(r) : r \in Refs}] :
                (\A r \in Refs : h[r] \in ObjectsAt(r)) /\ WellFormed(h)}

\* the relationship object as GraphLink reads it: its own fields and the
\* identity and truth value of its two endpoints
RelValue(h, o) ==
    [o EXCEPT !.start_node = Deref(h, o.start_node),
              !.end_node   = Deref(h, o.end_node)]

\* one call of _extract_graph_elements(value, nodes, links) up to its first
\* recursive call: the registries it leaves, and the values it will recurse
\* into, in order
Visit(h, r, R) ==
    LET value == h[r]
    IN  IF value.kind = "none" THEN [R |-> R, todo |-> <<>>]
        ELSE IF IsNode(value) THEN [R |-> InsertNode(value, R), todo |-> <<>>]
        ELSE IF IsRelationship(value) THEN
            IF value.element_id \notin Keys(R.links)
            THEN [R    |-> InsertLink(RelValue(h, value), R),
                  todo |-> SeqFilter(<<value.start_node, value.end_node>>,
                                     {x \in Refs : Truthy(h[x])})]
            ELSE [R |-> R, todo |-> <<>>]
        ELSE IF IsPath(value) THEN
            [R |-> R, todo |-> value.nodes \o value.relationships]
        ELSE IF IsList(value) THEN [R |-> R, todo |-> value.items]
        ELSE IF IsDict(value) THEN [R |-> R, todo |-> DictValues(value.entries)]
        ELSE [R |-> R, todo |-> <<>>]

\* the bottom frame is the handler's loop over record.values()
InitWalk ==
    /\ endpoint = "cypher"
    /\ heap \in HeapPool
    /\ stack = <<[ref |-> "", todo |-> <<"o1">>]>>
    /\ calls = <<>>
    /\ raised = NoError
    /\ rows = <<>>
    /\ nodes = <<>>
    /\ links = <<>>
    /\ pc = "walking"
    /\ response = NoResponse
    /\ request = NoRequest
    /\ queries = <<>>

\* the frame on top calls _extract_graph_elements on its next value; with
\* no frame left to grant, the interpreter raises RecursionError, which the
\* handler's except answers
WalkCall ==
    /\ pc = "walking"
    /\ stack # <<>>
    /\ stack[Len(stack)].todo # <<>>
    /\ LET top  == stack[Len(stack)]
           r    == Head(top.todo)
           v    == Visit(heap, r, [nodes |-> nodes, links |-> links])
       IN  IF Len(stack) - 1 >= MaxDepth
           THEN /\ pc' = "failed"
                /\ raised' = RecursionError
                /\ response' = ExceptionResponse(nodes, links, RecursionError)
                /\ UNCHANGED <<stack, nodes, links>>
           ELSE /\ stack' = [stack EXCEPT ![Len(stack)].todo = Tail(top.todo)]
                              \o <<[ref |-> r, todo |-> v.todo]>>
                /\ nodes' = v.R.nodes
                /\ links' = v.R.links
                /\ UNCHANGED <<pc, response, raised>>
    /\ UNCHANGED <<endpoint, rows, request, queries, heap, calls>>

\* the frame on top has nothing left and returns; the walk is over when the
\* handler's loop has nothing left
WalkReturn ==
    /\ pc = "walking"
    /\ stack # <<>>
    /\ stack[Len(stack)].todo = <<>>
    /\ IF Len(stack) = 1
       THEN pc' = "drained" /\ UNCHANGED stack
       ELSE stack' = SubSeq(stack, 1, Len(stack) - 1) /\ UNCHANGED pc
    /\ UNCHANGED <<endpoint, rows, nodes, links, response, request, queries,
                   heap, calls, raised>>

NextWalk == WalkCall \/ WalkReturn

SpecWalk == InitWalk /\ [][NextWalk]_vars

-----------------------------------------------------------------------------
(* Two invocations of execute_cypher served by one event loop: each has its *)
(* own locals, and a coroutine runs from one await to the next.             *)

CallIds == {"A", "B"}

\* the rows the two result streams deliver
CallRowPool ==
    {<<FullNode("n1"),
       Rel("r1", "officer_of", FullNode("n2"), FullNode("n1"), <<>>),
       FullNode("n2")>>,
     <<AltNode("n1")>>,
     <<Rel("r2", "registered_at", AltNode("n2"), FullNode("n3"), <<>>)>>}

\* an invocation that has not reached its try block
NoCall ==
    [pc |-> "received", rows |-> <<>>, todo |-> <<>>,
     nodes |-> <<>>, links |-> <<>>, response |-> NoResponse]

\* the event loop runs c only while no other coroutine is between two awaits
Runnable(c) == \A d \in CallIds \ {c} : calls[d].pc # "extracting"

\* a slip: the registries are module-level, every invocation works on A's
LocalRegistriesOfA(cs, c) == [nodes |-> cs["A"].nodes, links |-> cs["A"].links]

\* the dicts nodes and links that are locals of the invocation c
LocalRegistries(cs, c) == [nodes |-> cs[c].nodes, links |-> cs[c].links]

InitConcurrent ==
    /\ endpoint = "cypher"
    /\ rows = <<>>
    /\ nodes = <<>>
    /\ links = <<>>
    /\ pc = "serving"
    /\ response = NoResponse
    /\ request = NoRequest
    /\ queries = <<>>
    /\ heap = <<>>
    /\ stack = <<>>
    /\ calls = [c \in CallIds |-> NoCall]
    /\ raised = NoError

\* nodes = {}; links = {}; result = await session.run(...)
CallBegin(c) ==
    /\ Runnable(c)
    /\ calls[c].pc = "received"
    /\ calls' = [calls EXCEPT ![c].pc = "awaiting",
                              ![c].nodes = <<>>, ![c].links = <<>>]
    /\ UNCHANGED <<endpoint, rows, nodes, links, pc, response, request,
                   queries, heap, stack, raised>>

\* async for record in result: the awaited row arrives
CallNextRow(c) ==
    /\ Runnable(c)
    /\ calls[c].pc = "awaiting"
    /\ Len(calls[c].rows) < MaxRows
    /\ \E row \in CallRowPool :
          calls' = [calls EXCEPT ![c].pc = "extracting",
                                 ![c].rows = Append(@, row),
                                 ![c].todo = row]
    /\ UNCHANGED <<endpoint, rows, nodes, links, pc, response, request,
                   queries, heap, stack, raised>>

\* for value in record.values(): _extract_graph_elements(value, nodes, links);
\* after the last value the loop awaits the next row
CallExtractValue(c) ==
    /\ Runnable(c)
    /\ calls[c].pc = "extracting"
    /\ LET R == _extract_graph_elements(Head(calls[c].todo),
                                        LocalRegistries(calls, c))
       IN  calls' = [calls EXCEPT
                        ![c].nodes = R.nodes,
                        ![c].links = R.links,
                        ![c].todo = Tail(@),
                        ![c].pc = IF Tail(calls[c].todo) = <<>>
                                  THEN "awaiting" ELSE "extracting"]
    /\ UNCHANGED <<endpoint, rows, nodes, links, pc, response, request,
                   queries, heap, stack, raised>>

\* the stream is exhausted: the components of the invocation's registries
CallRespond(c) ==
    /\ Runnable(c)
    /\ calls[c].pc = "awaiting"
    /\ calls' = [calls EXCEPT
                    ![c].pc = "done",
                    ![c].response = ConnectedComponentsResponse(
                                        calls[c].nodes, calls[c].links)]
    /\ UNCHANGED <<endpoint, rows, nodes, links, pc, response, request,
                   queries, heap, stack, raised>>

NextConcurrent ==
    \E c \in CallIds :
        CallBegin(c) \/ CallNextRow(c) \/ CallExtractValue(c) \/ CallRespond(c)

SpecConcurrent == InitConcurrent /\ [][NextConcurrent]_vars

-----------------------------------------------------------------------------
(* Vocabulary of the properties *)

CypherDone == pc = "done" /\ endpoint = "cypher"

NetworkDone == pc = "done" /\ endpoint = "network"

IdsOf(sub) == {sub.nodes[i].id : i \in DOMAIN sub.nodes}

\* a link both of whose endpoints are registered nodes
Resolved(l) == l.source \in Keys(nodes) /\ l.target \in Keys(nodes)

Dangling(l) == ~Resolved(l)

Adjacent(a, b) ==
    \E l \in Range(links) :
        /\ Resolved(l)
        /\ \/ l.source = a /\ l.target = b
           \/ l.source = b /\ l.target = a

\* the registered nodes a chain of resolved links reaches from S
RECURSIVE ReachFrom(_)
ReachFrom(S) ==
    LET T == S \cup {b \in Keys(nodes) : \E a \in S : Adjacent(a, b)}
    IN  IF T = S THEN S ELSE ReachFrom(T)

SameSubgraph(a, b) ==
    \E i \in DOMAIN response.components :
        a \in IdsOf(response.components[i]) /\ b \in IdsOf(response.components[i])

\* how many places of the emitted subgraphs hold the node id
Occurrences(id) ==
    Cardinality({<<i, j>> \in (DOMAIN response.components) \X (1..Len(nodes)) :
                    /\ j \in DOMAIN response.components[i].nodes
                    /\ response.components[i].nodes[j].id = id})

\* how many entries of a registry carry the identity
Count(reg, id) == Cardinality({i \in DOMAIN reg : reg[i].id = id})

RECURSIVE DirectNodes(_)
\* node identities met as a value of their own or as a member of a path
DirectNodes(v) ==
    IF IsNode(v) THEN {v.element_id}
    ELSE IF IsPath(v) THEN UNION {DirectNodes(v.nodes[i]) : i \in DOMAIN v.nodes}
    ELSE IF IsList(v) THEN UNION {DirectNodes(v.items[i]) : i \in DOMAIN v.items}
    ELSE IF IsDict(v)
         THEN UNION {DirectNodes(v.entries[i].v) : i \in DOMAIN v.entries}
    ELSE {}

RECURSIVE RelsIn(_)
\* the relationship values met anywhere in a value
RelsIn(v) ==
    IF IsRelationship(v) THEN {v}
    ELSE IF IsPath(v)
         THEN UNION {RelsIn(v.relationships[i]) : i \in DOMAIN v.relationships}
              \cup UNION {RelsIn(v.nodes[i]) : i \in DOMAIN v.nodes}
    ELSE IF IsList(v) THEN UNION {RelsIn(v.items[i]) : i \in DOMAIN v.items}
    ELSE IF IsDict(v) THEN UNION {RelsIn(v.entries[i].v) : i \in DOMAIN v.entries}
    ELSE {}

\* the values of the rows drained so far
StreamValues == UNION {Range(rows[i]) : i \in DOMAIN rows}

SeenDirectNodes == UNION {DirectNodes(v) : v \in StreamValues}

SeenRels == UNION {RelsIn(v) : v \in StreamValues}

SeenLinkIds == {r.element_id : r \in SeenRels}

\* node identities supplied inline as the start or end of a relationship
InlineEndpoints(r) ==
    {n.element_id : n \in {m \in {r.start_node, r.end_node} : IsNode(m)}}

SeenEndpointNodes == UNION {InlineEndpoints(r) : r \in SeenRels}

IsPrefix(s, t) == Len(s) <= Len(t) /\ \A i \in DOMAIN s : s[i] = t[i]

-----------------------------------------------------------------------------
(* Properties of the assembly *)

\* C1 Partition correctness: two registered nodes are in the same emitted
\* subgraph exactly when they are equal or joined by a chain of links,
\* direction ignored, each of which has both endpoints registered.
PartitionCorrectness ==
    CypherDone =>
        \A a, b \in Keys(nodes) : SameSubgraph(a, b) <=> b \in ReachFrom({a})

\* C1 witness: two nodes without a link between them share a subgraph through a
\* third one, while a link with an unregistered endpoint joined nothing.
PartitionCorrectnessWitness ==
    /\ CypherDone
    /\ \E a, b \in Keys(nodes) :
          a # b /\ ~Adjacent(a, b) /\ SameSubgraph(a, b)

\* C2 Partition completeness: the emitted node sets cover the node registry,
\* every registered node is at exactly one place of exactly one subgraph, and
\* no subgraph is empty.
PartitionCompleteness ==
    CypherDone =>
        /\ UNION {IdsOf(response.components[i]) : i \in DOMAIN response.components}
              = Keys(nodes)
        /\ \A id \in Keys(nodes) : Occurrences(id) = 1
        /\ \A i \in DOMAIN response.components :
              response.components[i].nodes # <<>>

\* C2 witness: three nodes spread over a pair and a singleton.
PartitionCompletenessWitness ==
    /\ CypherDone
    /\ Len(nodes) = 3
    /\ Len(response.components) = 2

\* C3 Endpoint completeness: every link of an emitted subgraph has its source
\* and its target among that subgraph's nodes.
EndpointCompleteness ==
    CypherDone =>
        \A i \in DOMAIN response.components :
            \A j \in DOMAIN response.components[i].links :
                /\ response.components[i].links[j].source
                      \in IdsOf(response.components[i])
                /\ response.components[i].links[j].target
                      \in IdsOf(response.components[i])

\* C3 witness: a subgraph carries a link while the registry also holds a link
\* with exactly one registered endpoint.
EndpointCompletenessWitness ==
    /\ CypherDone
    /\ \E i \in DOMAIN response.components : response.components[i].links # <<>>
    /\ \E l \in Range(links) :
          (l.source \in Keys(nodes)) # (l.target \in Keys(nodes))

\* the emitted subgraphs of either handler
EmittedSubgraphs ==
    IF endpoint = "cypher" THEN Range(response.components)
    ELSE IF response.status = 200
         THEN {[nodes |-> response.nodes, links |-> response.links]}
         ELSE {}

\* every link all of whose other ends are missing leaves its node alone
OnlyDanglingAt(x) ==
    \A l \in Range(links) : (l.source = x \/ l.target = x) => Dangling(l)

SizeOrdering ==
    CypherDone =>
        \A i \in 1..(Len(response.components) - 1) :
            Len(response.components[i].nodes)
                >= Len(response.components[i + 1].nodes)

\* C8 witness: the node registered first is alone while a later pair forms the
\* larger subgraph, so the grouping order is not the emitted order.
SizeOrderingWitness ==
    /\ CypherDone
    /\ Len(response.components) = 2
    /\ nodes[1].id \in IdsOf(response.components[2])
    /\ Len(response.components[1].nodes) = 2

-----------------------------------------------------------------------------
(* Properties of the walk *)

SkippedEndpointReached ==
    \E r \in SeenRels :
        \E n \in {r.start_node, r.end_node} :
            IsNode(n) /\ Truthy(n) /\ n.element_id \notin Keys(nodes)

\* C6 First write wins: no step changes or removes an entry of a registry;
\* a step only appends.
FirstWriteWins == [][IsPrefix(nodes, nodes') /\ IsPrefix(links, links')]_vars

\* C6 witness: a node and a link were each met again with other labels,
\* properties, type and endpoints, and the registries hold what was met first.
FirstWriteWinsWitness ==
    /\ Len(rows) = 2
    /\ rows[2] = <<SecondSight>>
    /\ GraphNode(FullNode("n1")) \in Range(nodes)
    /\ \E l \in Range(links) :
          l.id = "r1" /\ l.type = "officer_of" /\ l.source = "n2"

\* C7 as written: once the walk is over, every node supplied inline as the
\* start or end of a relationship met in the stream is in the node registry.
InlineEndpointsRegistered ==
    pc = "done" => SeenEndpointNodes \subseteq Keys(nodes)

\* C9 Empty input: when no row was drained, or no row held a node or a
\* relationship, execute_cypher answers 200 with no component and zero totals.
EmptyInput ==
    (CypherDone /\ SeenDirectNodes = {} /\ SeenRels = {}) =>
        /\ response.status = 200
        /\ response.components = <<>>
        /\ response.total_nodes = 0
        /\ response.total_links = 0
        /\ response.component_count = 0

\* C9 witness: two rows were drained, none holding an entity.
EmptyInputWitness ==
    /\ CypherDone
    /\ Len(rows) = 2
    /\ rows[1] # rows[2]
    /\ SeenDirectNodes = {} /\ SeenRels = {}

\* a path of two nodes and one relationship between them
IsTwoNodePath(v) ==
    /\ IsPath(v)
    /\ Len(v.nodes) = 2 /\ Len(v.relationships) = 1
    /\ v.nodes[1].element_id # v.nodes[2].element_id
    /\ {v.relationships[1].start_node, v.relationships[1].end_node}
          = Range(v.nodes)

\* C10 Path merge mode: the one subgraph emitted holds every entry of the node
\* registry and every entry of the link registry, links with an unregistered
\* endpoint included; a single path of two nodes and the relationship between
\* them gives 2 nodes and 1 link.
MergedHoldsRegistries ==
    (NetworkDone /\ response.status = 200) =>
        /\ response.nodes = nodes
        /\ response.links = links
        /\ (Len(rows) = 1 /\ Len(rows[1]) = 1 /\ IsTwoNodePath(rows[1][1])) =>
              Len(response.nodes) = 2 /\ Len(response.links) = 1

\* C10 witness: the merged subgraph holds a link whose endpoint is no
\* registered node.
MergedHoldsRegistriesWitness ==
    /\ NetworkDone
    /\ response.status = 200
    /\ \E l \in Range(response.links) : Dangling(l)
    /\ response.nodes # <<>>

\* C10 second case reached: the stream was one path of two nodes and their
\* relationship.
MergedTwoNodePathReached ==
    NetworkDone /\ Len(rows) = 1 /\ Len(rows[1]) = 1 /\ IsTwoNodePath(rows[1][1])

\* C11 Not found in path merge mode: when the walked paths held no node and no
\* relationship (no path at all included) the answer is 404 and never an empty
\* subgraph; when they held at least one, the answer is a subgraph that is not
\* empty.
MergedNotFound ==
    NetworkDone =>
        /\ (SeenDirectNodes = {} /\ SeenRels = {}) => response.status = 404
        /\ (SeenDirectNodes # {} \/ SeenRels # {}) =>
              /\ response.status = 200
              /\ response.nodes # <<>> \/ response.links # <<>>
        /\ response.status = 200 =>
              response.nodes # <<>> \/ response.links # <<>>

\* C11 witness: two rows were walked, none holding an entity, and the answer
\* is 404.
MergedNotFoundWitness ==
    /\ NetworkDone
    /\ Len(rows) = 2
    /\ SeenDirectNodes = {} /\ SeenRels = {}
    /\ response.status = 404

\* C11 second case reached: a relationship alone was extracted, no node, and
\* the answer is a subgraph.
MergedFoundReached ==
    /\ NetworkDone
    /\ nodes = <<>> /\ links # <<>>
    /\ response.status = 200

SearchDone == pc = "done" /\ endpoint = "search"

HasIntegerNodeId(value) ==
    \E i \in DOMAIN value.props :
        value.props[i].k = "node_id" /\ TypeOf(value.props[i]) = "int"

\* what the conversion is said to build from a node
ExpectedGraphNode(value) ==
    [id         |-> value.element_id,
     node_id    |-> IF HasIntegerNodeId(value)
                    THEN (CHOOSE e \in Range(value.props) : e.k = "node_id").v
                    ELSE 0,
     label      |-> IF value.labels = <<>> THEN "Unknown" ELSE Head(value.labels),
     properties |-> SeqFilter(value.props,
                              {e \in Range(value.props) : e.k # "node_id"})]

\* C12 Node conversion: every node of a search result is converted without
\* failure into the GraphNode whose numeric id is the integer node_id of the
\* node, or 0 when node_id is absent or not an integer, whose properties are
\* the node's without node_id and whose label is the first label or "Unknown".
NodeConversion ==
    (SearchDone /\ queries # <<>>) =>
        /\ response.status = 200
        /\ \A i \in DOMAIN rows :
              response.nodes[i] = ExpectedGraphNode(rows[i].n)

\* C12, the part the code meets: a node whose node_id is absent or an int is
\* converted as said.
NodeConversionOfIntegerIds ==
    (SearchDone /\ queries # <<>>
        /\ \A i \in DOMAIN rows : NodeIdType(rows[i].n) = "int") =>
        /\ response.status = 200
        /\ \A i \in DOMAIN rows :
              response.nodes[i] = ExpectedGraphNode(rows[i].n)

\* C12 the failing case reached: a node whose node_id is a string that spells
\* no number was returned, and the answer is 500.
NodeConversionRaisedReached ==
    /\ SearchDone
    /\ Len(rows) = 1
    /\ NodeIdType(rows[1].n) = "str"
    /\ response.status = 500

\* C18 Allow-list of the property search: a property name outside the
\* allow-list is answered 400 with no query built or run, and the property
\* interpolated into any query that is run is a member of the allow-list.
PropertyAllowList ==
    /\ \A i \in DOMAIN queries : queries[i].property \in allowed_properties
    /\ (SearchDone /\ request.property_name \notin allowed_properties) =>
          /\ response.status = 400
          /\ queries = <<>>
          /\ rows = <<>>
    /\ (SearchDone /\ request.property_name \in allowed_properties) =>
          /\ Len(queries) = 1
          /\ queries[1].property = request.property_name
          /\ response.status # 400

\* C18 witness: a name that differs from an allowed one by its case only was
\* refused.
PropertyAllowListWitness ==
    /\ SearchDone
    /\ request.property_name = "Name"
    /\ response.status = 400
    /\ queries = <<>>

\* C18 second case reached: an allowed name was interpolated and run.
PropertyAllowedReached ==
    /\ SearchDone
    /\ request.property_name = "ibcRUC"
    /\ Len(queries) = 1
    /\ response.status = 200 /\ response.total = 1

\* one occurrence of an entity in a value, in the order of the text of the
\* value: as a value of its own (a column, a path member, an item), or as the
\* start or end node a relationship carries; back is the distance to the
\* occurrence of that relationship
Occurrence(t, id, via, back, truthy) ==
    [t |-> t, id |-> id, via |-> via, back |-> back, truthy |-> truthy]

RECURSIVE OccurrencesIn(_)
RECURSIVE OccurrencesInAll(_)

OccurrencesInAll(seq) ==
    IF seq = <<>> THEN <<>>
    ELSE OccurrencesIn(Head(seq)) \o OccurrencesInAll(Tail(seq))

OccurrencesIn(v) ==
    IF IsNode(v) THEN <<Occurrence("node", v.element_id, "value", 0, TRUE)>>
    ELSE IF IsRelationship(v) THEN
        LET s == IF IsNode(v.start_node)
                 THEN <<Occurrence("node", v.start_node.element_id, "endpoint",
                                   1, Len(v.start_node.props) > 0)>>
                 ELSE <<>>
            e == IF IsNode(v.end_node)
                 THEN <<Occurrence("node", v.end_node.element_id, "endpoint",
                                   1 + Len(s), Len(v.end_node.props) > 0)>>
                 ELSE <<>>
        IN  <<Occurrence("rel", v.element_id, "value", 0, TRUE)>> \o s \o e
    ELSE IF IsPath(v) THEN
        OccurrencesInAll(v.nodes) \o OccurrencesInAll(v.relationships)
    ELSE IF IsList(v) THEN OccurrencesInAll(v.items)
    ELSE IF IsDict(v) THEN
        OccurrencesInAll([i \in DOMAIN v.entries |-> v.entries[i].v])
    ELSE <<>>

\* the occurrences of the whole stream drained so far
StreamOccurrences ==
    OccurrencesInAll([i \in DOMAIN rows |-> List(rows[i])])

Min(S) == CHOOSE x \in S : \A y \in S : x <= y

\* where an identity occurs first in the stream, in any position
FirstEncounter(t, id) ==
    LET occ == StreamOccurrences
    IN  Min({p \in DOMAIN occ : occ[p].t = t /\ occ[p].id = id})

\* the walker extracts an occurrence when it is a value of its own, or the
\* endpoint, holding at least one property, of the first occurrence of its
\* relationship
Extracted(occ, p) ==
    \/ occ[p].via = "value"
    \/ /\ occ[p].truthy
       /\ \A q \in 1..(p - occ[p].back - 1) :
             ~(occ[q].t = "rel" /\ occ[q].id = occ[p - occ[p].back].id)

ExtractedAt(t, id) ==
    LET occ == StreamOccurrences
    IN  {p \in DOMAIN occ : occ[p].t = t /\ occ[p].id = id /\ Extracted(occ, p)}

\* sub holds entries of reg only, once each, in the order reg has them
IsSubsequence(sub, reg) ==
    \E f \in [DOMAIN sub -> DOMAIN reg] :
        /\ \A i \in DOMAIN sub : sub[i] = reg[f[i]]
        /\ \A i, j \in DOMAIN sub : i < j => f[i] < f[j]

\* the assembly keeps the order of the registries within every subgraph
AssemblyKeepsOrder ==
    CypherDone =>
        \A c \in DOMAIN response.components :
            /\ IsSubsequence(response.components[c].nodes, nodes)
            /\ IsSubsequence(response.components[c].links, links)

RECURSIVE WalkRows(_, _)
WalkRows(rs, R) ==
    IF rs = <<>> THEN R ELSE WalkRows(Tail(rs), ExtractAll(Head(rs), R))

RegistriesOfRows == WalkRows(rows, [nodes |-> <<>>, links |-> <<>>])

\* at every moment the registries hold the entities of the rows drained so
\* far, each row walked to its end
RegistriesHoldDrainedRows ==
    /\ nodes = RegistriesOfRows.nodes
    /\ links = RegistriesOfRows.links

\* C14 as stated: when the stream raises after k rows the registries hold the
\* entities of these k rows and the handler assembles them into a components
\* answer like any other.
TruncatedWalkAssembled ==
    /\ RegistriesHoldDrainedRows
    /\ (endpoint = "cypher" /\ pc \in {"failed", "cancelled"}) =>
          response = ConnectedComponentsResponse(nodes, links)

\* C14 Truncation: when the stream raises after k rows the registries hold
\* exactly the entities of these k rows, but nothing is assembled: an
\* Exception is answered 500 without components, a cancellation leaves no
\* answer.  When the stream ends after k rows, these rows are assembled and
\* the answer is that of a stream of exactly these rows.
TruncationIsFailure ==
    /\ RegistriesHoldDrainedRows
    /\ pc = "failed" =>
          /\ response.status = 500
          /\ "components" \notin DOMAIN response
    /\ pc = "cancelled" => response = NoResponse
    /\ CypherDone =>
          response = ConnectedComponentsResponse(RegistriesOfRows.nodes,
                                                 RegistriesOfRows.links)

\* C14 witness: the stream raised after one row that held entities, and the
\* answer is 500.
TruncationIsFailureWitness ==
    /\ pc = "failed"
    /\ Len(rows) = 1
    /\ nodes # <<>> /\ links # <<>>
    /\ response.status = 500

\* C14 second case reached: the serving task was cancelled after two rows.
CancelledReached ==
    /\ pc = "cancelled"
    /\ Len(rows) = 2
    /\ nodes # <<>>

\* C15 Response totals: total_nodes is the size of the node registry and the
\* sum of the node counts of the components; component_count is the number of
\* components; total_links is the size of the link registry, dangling links
\* counted, so it is at least the sum of the link counts of the components,
\* and equal to it exactly when every link has both endpoints registered.
ResponseTotals ==
    CypherDone =>
        LET cs        == response.components
            nodeSum   == SumOf([i \in DOMAIN cs |-> Len(cs[i].nodes)])
            linkSum   == SumOf([i \in DOMAIN cs |-> Len(cs[i].links)])
            dangling  == {i \in DOMAIN links : Dangling(links[i])}
        IN  /\ response.total_nodes = Len(nodes)
            /\ response.total_nodes = nodeSum
            /\ response.component_count = Len(cs)
            /\ response.total_links = Len(links)
            /\ response.total_links = linkSum + Cardinality(dangling)
            /\ response.total_links >= linkSum
            /\ (response.total_links = linkSum) <=> (dangling = {})

\* C15 witness: one link with an unregistered endpoint and one link between
\* registered nodes, over two components.
ResponseTotalsWitness ==
    /\ CypherDone
    /\ Len(response.components) = 2
    /\ \E i, j \in DOMAIN links : Dangling(links[i]) /\ Resolved(links[j])
    /\ response.total_links = 2

\* the words and the punctuation of a text, whitespace dropped: a word is a
\* maximal run of letters
Lexemes(q) ==
    {r \in (DOMAIN q) \X (DOMAIN q) :
        /\ r[1] <= r[2]
        /\ \/ r[1] = r[2] /\ ~IsLetters(q[r[1]]) /\ ~IsSpace(q[r[1]])
           \/ /\ \A k \in r[1]..r[2] : IsLetters(q[k])
              /\ r[1] = 1 \/ ~IsLetters(q[r[1] - 1])
              /\ r[2] = Len(q) \/ ~IsLetters(q[r[2] + 1])}

\* the text holds the word w as a word of its own
HasWordAt(q, r, w) == r \in Lexemes(q) /\ SubSeq(q, r[1], r[2]) = <<w>>

\* the text holds the operation: the words of the keyword, case aside, as
\* consecutive words of the text, with whitespace only between two of them
ContainsOperation(text, keyword) ==
    LET q == upper(text)
    IN  IF Len(keyword) = 1
        THEN \E r \in Lexemes(q) : HasWordAt(q, r, keyword[1])
        ELSE \E r1, r2 \in Lexemes(q) :
                /\ HasWordAt(q, r1, keyword[1])
                /\ HasWordAt(q, r2, keyword[3])
                /\ r1[2] < r2[1]
                /\ \A k \in (r1[2] + 1)..(r2[1] - 1) : IsSpace(q[k])

Dangerous(text) ==
    \E n \in DOMAIN dangerous_keywords :
        ContainsOperation(text, dangerous_keywords[n])

Answered == pc \notin {"received", "walking"}

\* C16 Dangerous queries rejected: every query that holds one of the seven
\* dangerous operations is answered 403, and no query is run for it.
DangerousQueriesRejected ==
    Dangerous(request.query) =>
        /\ queries = <<>>
        /\ Answered => response.status = 403

\* C16, the part the code meets: a query that holds DELETE or DROP as a token
\* between whitespace is answered 403 and is not run.
DangerousTokenRejected ==
    (\E w \in {"DELETE", "DROP"} : <<w>> \in split(upper(request.query))) =>
        /\ queries = <<>>
        /\ Answered => response.status = 403

\* C16 the failing cases reached: MATCH(n)DELETE(n) was run, and so was
\* CREATE INDEX written with two blanks.
DangerousQueryRunReached ==
    /\ request.query = <<"MATCH", "(n)", "DELETE", "(n)">>
    /\ queries = <<request.query>>
    /\ pc = "done"
    /\ response.status = 200

SchemaQueryRunReached ==
    /\ request.query = <<"CREATE", " ", " ", "INDEX">>
    /\ queries = <<request.query>>
    /\ pc = "done"

\* C17 Empty query: a query that is empty or whitespace only is answered 400
\* and nothing is run; a request answered 400 or 403 had no query run and is
\* never answered 500, which is only the answer of a query that was run.
EmptyQueryRejected ==
    /\ (pc # "received" /\ \A i \in DOMAIN request.query : IsSpace(request.query[i])) =>
          /\ pc = "rejected"
          /\ response.status = 400
          /\ queries = <<>>
    /\ pc = "rejected" =>
          /\ response.status \in {400, 403}
          /\ queries = <<>>
    /\ response.status \in {400, 403} => pc = "rejected"
    /\ response.status = 500 => queries # <<>>

\* C17 witness: a query of two blanks was answered 400.
EmptyQueryRejectedWitness ==
    /\ request.query = <<" ", " ">>
    /\ pc = "rejected"
    /\ response.status = 400
    /\ queries = <<>>

\* C17 second case reached: a query was answered 403, and another 500.
ForbiddenReached ==
    /\ pc = "rejected"
    /\ response.status = 403
    /\ request.query = <<" ", "MATCH", " ", "delete">>

ExecutionFailedReached ==
    /\ pc = "failed"
    /\ response.status = 500
    /\ queries = <<<<"MATCH", " ", "(n)">>>>

\* where the first node of a subgraph stands in the node registry
FirstInserted(sub) ==
    Min({k \in DOMAIN nodes : nodes[k].id \in IdsOf(sub)})

\* C19 Equal sizes: of two subgraphs with the same node count, the one whose
\* first node was inserted earlier into the node registry comes first; two
\* nodes that no link joins give two subgraphs of one node each, in the order
\* of the registry.
EqualSizeOrder ==
    CypherDone =>
        LET cs == response.components
        IN  /\ \A i, j \in DOMAIN cs :
                  (i < j /\ Len(cs[i].nodes) = Len(cs[j].nodes)) =>
                      FirstInserted(cs[i]) < FirstInserted(cs[j])
            /\ (Len(nodes) = 2 /\ ~Adjacent(nodes[1].id, nodes[2].id)) =>
                  /\ Len(cs) = 2
                  /\ cs[1].nodes = <<nodes[1]>>
                  /\ cs[2].nodes = <<nodes[2]>>

\* C19 witness: three subgraphs of one node each beside a dangling link, the
\* registry being in another order than the names.
EqualSizeOrderWitness ==
    /\ CypherDone
    /\ Len(nodes) = 3 /\ nodes[1].id = "n3" /\ nodes[2].id = "n2"
    /\ Len(response.components) = 3
    /\ links # <<>>

\* C19 second case reached: two nodes, a link from one of them to a node that
\* is not registered.
TwoSingletonsReached ==
    /\ CypherDone
    /\ Len(nodes) = 2 /\ nodes[1].id = "n2" /\ nodes[2].id = "n1"
    /\ Len(response.components) = 2
    /\ \E l \in Range(links) : l.source = "n1" /\ l.target = "n3"

\* the references a value holds
ChildRefs(o) ==
    IF IsRelationship(o) THEN {o.start_node, o.end_node} \ {""}
    ELSE IF IsPath(o) THEN Range(o.nodes) \cup Range(o.relationships)
    ELSE IF IsList(o) THEN Range(o.items)
    ELSE IF IsDict(o) THEN {o.entries[i].v : i \in DOMAIN o.entries}
    ELSE {}

\* the references a chain of such references reaches from S
RECURSIVE RefsFrom(_, _)
RefsFrom(h, S) ==
    LET T == S \cup UNION {ChildRefs(h[r]) : r \in S}
    IN  IF T = S THEN S ELSE RefsFrom(h, T)

\* the value at r is held, directly or not, by itself
HoldsItself(h, r) == r \in RefsFrom(h, ChildRefs(h[r]))

\* a sequence or mapping of the walked value contains itself
ContainerCycle(h) ==
    \E r \in RefsFrom(h, {"o1"}) :
        (IsList(h[r]) \/ IsDict(h[r])) /\ HoldsItself(h, r)

\* C20 Termination: the walk of every value, cyclic ones included, ends
\* without a failure.
WalkerTotal == pc # "failed"

\* C20, the part the code meets: the walk fails only on a value in which a
\* sequence or a mapping contains itself; a relationship that is its own
\* endpoint, or the endpoint of its endpoint, is walked to the end.
WalkerFailsOnlyOnContainerCycle ==
    /\ pc = "failed" => ContainerCycle(heap)
    /\ (pc = "drained" /\ IsRelationship(heap["o1"])) =>
          heap["o1"].element_id \in Keys(links)

\* the value at r as a tree, for a value that holds itself nowhere
RECURSIVE TreeOf(_, _)
TreeOf(h, r) ==
    LET o == Deref(h, r)
    IN  IF IsRelationship(o)
        THEN [o EXCEPT !.start_node = TreeOf(h, o.start_node),
                       !.end_node   = TreeOf(h, o.end_node)]
        ELSE IF IsPath(o)
        THEN Path([i \in DOMAIN o.nodes |-> TreeOf(h, o.nodes[i])],
                  [i \in DOMAIN o.relationships |->
                      TreeOf(h, o.relationships[i])])
        ELSE IF IsList(o)
        THEN List([i \in DOMAIN o.items |-> TreeOf(h, o.items[i])])
        ELSE IF IsDict(o)
        THEN Dict([i \in DOMAIN o.entries |->
                      Entry(o.entries[i].k, TreeOf(h, o.entries[i].v))])
        ELSE o

\* on a value without a cycle the walk call by call leaves the registries
\* that _extract_graph_elements gives for the value as a tree
WalkAgreesOnTrees ==
    (pc = "drained" /\ \A r \in RefsFrom(heap, {"o1"}) : ~HoldsItself(heap, r)) =>
        [nodes |-> nodes, links |-> links]
            = _extract_graph_elements(TreeOf(heap, "o1"),
                                      [nodes |-> <<>>, links |-> <<>>])

\* a value without a cycle was walked into both registries
WalkOfTreeReached ==
    /\ pc = "drained"
    /\ \A r \in RefsFrom(heap, {"o1"}) : ~HoldsItself(heap, r)
    /\ nodes # <<>> /\ links # <<>>
    /\ IsList(heap["o1"])

\* C20 the failing case reached: a list that is its own only item.
SelfContainingListReached ==
    /\ heap["o1"] = List(<<"o1">>)
    /\ pc = "failed"
    /\ response.status = 500

\* C20 a case the code meets reached: a relationship whose end node is the
\* relationship itself was walked to the end.
SelfEndpointEdgeReached ==
    /\ IsRelationship(heap["o1"])
    /\ heap["o1"].end_node = "o1" /\ heap["o1"].start_node = "o2"
    /\ IsNode(heap["o2"])
    /\ pc = "drained"
    /\ Len(links) = 1 /\ links[1].target = "r1"

\* the relationships of the stream that stand in the link registry and lack
\* a start or an end node
OmittedEndpointRels ==
    {r \in SeenRels : /\ GraphLink(r) \in Range(links)
                      /\ "none" \in {r.start_node.kind, r.end_node.kind}}

\* the link of r is dangling, is in no subgraph, and the partition is the one
\* of the registries without it
LeftDangling(r) ==
    LET l == GraphLink(r)
    IN  /\ l \in Range(links)
        /\ Dangling(l)
        /\ "" \notin Keys(nodes)
        /\ CypherDone =>
              /\ \A c \in DOMAIN response.components :
                    l \notin Range(response.components[c].links)
              /\ response.components =
                    _find_connected_components(
                        nodes, SeqFilter(links, Range(links) \ {l}))

\* C21 Omitted endpoints: a relationship without start or end node is put in
\* the link registry, its present endpoint is extracted into the node
\* registry, no node stands for the missing one, and the link is dangling: in
\* no subgraph and without effect on the partition.
OmittedEndpointExtracted ==
    /\ SeenLinkIds \subseteq Keys(links)
    /\ \A r \in OmittedEndpointRels :
          /\ LeftDangling(r)
          /\ InlineEndpoints(r) \subseteq Keys(nodes)

\* C21, the part the code meets: the same, the present endpoint being
\* extracted when it holds at least one property.
OmittedEndpointLeftDangling ==
    /\ SeenLinkIds \subseteq Keys(links)
    /\ \A r \in OmittedEndpointRels :
          /\ LeftDangling(r)
          /\ \A x \in {r.start_node, r.end_node} :
                (IsNode(x) /\ x.props # <<>>) => x.element_id \in Keys(nodes)

\* C21 the failing case reached: the start node is missing and the end node,
\* present without properties, is not registered.
PresentEndpointSkippedReached ==
    /\ CypherDone
    /\ rows = <<<<Rel("r1", "officer_of", None, BareNode("n2"),
                     <<Entry("since", 1)>>)>>>>
    /\ nodes = <<>>
    /\ Len(links) = 1

\* C21 a case the code meets reached: both endpoints are missing.
BothEndpointsOmittedReached ==
    /\ CypherDone
    /\ \E r \in OmittedEndpointRels :
          r.start_node.kind = "none" /\ r.end_node.kind = "none"
    /\ nodes # <<>>

\* every relationship value a stream may carry, at any depth
PoolRels == UNION {RelsIn(v) : v \in UNION {Range(row) : row \in RowPool}}

Registries == [nodes |-> nodes, links |-> links]

\* C22 Registered edge: at every point of the walk, extracting a
\* relationship whose identity is in the link registry changes neither
\* registry; its inline endpoints are not extracted, registered or not.
RegisteredEdgeNoOp ==
    pc = "walking" =>
        \A r \in PoolRels :
            r.element_id \in Keys(links) =>
                _extract_graph_elements(r, Registries) = Registries

\* C22 witness: r1 was registered without endpoints, then met again with two
\* inline endpoints holding properties, and no node is registered.
RegisteredEdgeNoOpWitness ==
    /\ Len(rows) = 2
    /\ rows[1] = <<Rel("r1", "officer_of", None, None, <<Entry("since", 1)>>)>>
    /\ rows[2] = <<Rel("r1", "officer_of", FullNode("n1"), FullNode("n2"),
                       <<Entry("since", 1)>>)>>
    /\ nodes = <<>>
    /\ Len(links) = 1 /\ links[1].source = ""

\* the identities of seq that are not in known, each once, in order
RECURSIVE NewIds(_, _)
NewIds(seq, known) ==
    IF seq = <<>> THEN <<>>
    ELSE IF Head(seq) \in known THEN NewIds(Tail(seq), known)
    ELSE <<Head(seq)>> \o NewIds(Tail(seq), known \cup {Head(seq)})

IdSeq(reg) == [i \in DOMAIN reg |-> reg[i].id]

\* what the extraction of the path p does to the registries at hand
PathExtraction(p) ==
    LET out      == _extract_graph_elements(p, Registries)
        members  == [i \in DOMAIN p.nodes |-> p.nodes[i].element_id]
        newNodes == NewIds(members, Keys(nodes))
        newLinks == NewIds([i \in DOMAIN p.relationships |->
                               p.relationships[i].element_id], Keys(links))
        after    == Len(nodes) + Len(newNodes)
    IN  \* the nodes of the path, in order, right behind what was registered
        /\ IsPrefix(nodes, out.nodes)
        /\ Len(out.nodes) >= after
        /\ SubSeq(IdSeq(out.nodes), Len(nodes) + 1, after) = newNodes
        \* then the nodes only the relationships of the path bring
        /\ \A i \in (after + 1)..Len(out.nodes) :
              /\ out.nodes[i].id \notin Range(members)
              /\ \E e \in Range(p.relationships) :
                    out.nodes[i].id \in InlineEndpoints(e)
        \* the relationships of the path, in order
        /\ IsPrefix(links, out.links)
        /\ SubSeq(IdSeq(out.links), Len(links) + 1, Len(out.links)) = newLinks
        \* a relationship between nodes of the path finds them registered
        \* ahead of every node a relationship brings
        /\ \A e \in Range(p.relationships) :
              InlineEndpoints(e) \subseteq Range(members) =>
                  InlineEndpoints(e) \subseteq
                      Range(SubSeq(IdSeq(out.nodes), 1, after))

\* C23 Path extraction: at every point of the walk, the nodes of a path are
\* extracted in order, then its relationships in order, whatever the two
\* lengths: the new nodes of the
\* path stand in the node registry ahead of every node that only an endpoint
\* of one of its relationships brings, and a relationship whose endpoints are
\* nodes of the path finds both registered.
PathNodesThenEdges == pc = "walking" => \A p \in PathObjs : PathExtraction(p)

\* C23 witness: with n3 registered, the path of the one node n1 and the
\* relationship r2 from n2 to n3 was extracted: n1 stands ahead of n2.
PathNodesThenEdgesWitness ==
    /\ Len(rows) = 2
    /\ rows[1] = <<FullNode("n3")>>
    /\ rows[2] = <<Path(<<FullNode("n1")>>,
                        <<Rel("r2", "officer_of", FullNode("n2"),
                              FullNode("n3"), <<>>)>>)>>
    /\ IdSeq(nodes) = <<"n3", "n1", "n2">>
    /\ IdSeq(links) = <<"r2">>

\* the node values of the pool, the one with a list in a property included
FrameNodes == NodeObjs \cup {NestedNode}

\* the node value changes nothing but, when its identity is new, its own entry
NodeFrame(value) ==
    LET out == _extract_graph_elements(value, Registries)
    IN  /\ out.links = links
        /\ IF value.element_id \in Keys(nodes)
           THEN out.nodes = nodes
           ELSE /\ Len(out.nodes) = Len(nodes) + 1
                /\ IsPrefix(nodes, out.nodes)
                /\ out.nodes[Len(out.nodes)].id = value.element_id

PoolDicts == {v \in ContainerObjs : IsDict(v)}

DictKeys == {"a", "b", "nodes", "element_id"}

\* the same values under other keys
Rekeyed(d) ==
    {Dict([i \in DOMAIN d.entries |-> Entry(ks[i], d.entries[i].v)]) :
        ks \in {f \in [DOMAIN d.entries -> DictKeys] :
                   \A i, j \in DOMAIN f : f[i] = f[j] => i = j}}

\* C24 Frame of the walker: at every point of the walk, None and a scalar
\* leave both registries as they are; a node value changes at most its own entry of the node registry,
\* never the link registry, and nothing held in its properties is walked; a
\* dict is walked by its values alone, whatever its keys.
WalkerFrame ==
    pc = "walking" =>
        /\ \A v \in {None, Scalar(1)} :
              _extract_graph_elements(v, Registries) = Registries
        /\ \A v \in FrameNodes : NodeFrame(v)
        /\ \A d \in PoolDicts :
              /\ _extract_graph_elements(d, Registries)
                    = ExtractAll(DictValues(d.entries), Registries)
              /\ \A e \in Rekeyed(d) :
                    _extract_graph_elements(e, Registries)
                        = _extract_graph_elements(d, Registries)

\* C24 witness: the node n2 with the node n3 inside a property was walked,
\* then the dict of a scalar and the relationship r2: n3 is not registered,
\* the scalar left nothing, the values of the dict are.
WalkerFrameWitness ==
    /\ Len(rows) = 2
    /\ rows[1] = <<NestedNode>>
    /\ \E d \in PoolDicts : rows[2] = <<d>>
    /\ IdSeq(nodes) = <<"n2", "n1">>
    /\ IdSeq(links) = <<"r2">>

\* the partition that the assembly makes of the node identities
PartitionOf(ns, ls) ==
    LET result == _find_connected_components(ns, ls)
    IN  {IdsOf(result[i]) : i \in DOMAIN result}

\* the link registry with source and target of the links at S exchanged
Swapped(ls, S) ==
    [i \in DOMAIN ls |->
        IF i \in S
        THEN [ls[i] EXCEPT !.source = ls[i].target, !.target = ls[i].source]
        ELSE ls[i]]

\* the link registry in another order
Permuted(ls, p) == [i \in DOMAIN ls |-> ls[p[i]]]

\* the root under which the union loop leaves the identity id
RootOf(ns, ls, id) == find(UnionLinks(InitParent(ns), ls, Keys(ns)), id).root

\* C25 Direction and order independence: exchanging source and target of any
\* links, or taking the links of the link registry in another order, leaves
\* the partition of the node identities, as a set of sets, unchanged.
PartitionIgnoresDirectionAndOrder ==
    /\ \A S \in SUBSET DOMAIN links :
          PartitionOf(nodes, Swapped(links, S)) = PartitionOf(nodes, links)
    /\ \A p \in Perms(DOMAIN links) :
          PartitionOf(nodes, Permuted(links, p)) = PartitionOf(nodes, links)

\* C25 witness: three nodes joined by two links were assembled into one
\* subgraph; with a link turned round, and with the two links in the other
\* order, the union loop leaves n1 under another root.
PartitionIgnoresDirectionAndOrderWitness ==
    /\ CypherDone
    /\ Len(nodes) = 3
    /\ Len(links) = 2
    /\ Len(response.components) = 1
    /\ \E S \in SUBSET DOMAIN links :
          RootOf(nodes, Swapped(links, S), "n1") # RootOf(nodes, links, "n1")
    /\ RootOf(nodes, Permuted(links, <<2, 1>>), "n1") # RootOf(nodes, links, "n1")

EmptyRegistries == [nodes |-> <<>>, links |-> <<>>]

\* the registries the invocation c would hold had it run alone up to the
\* value it has reached
WalkedAlone(c) ==
    LET call  == calls[c]
        k     == Len(call.rows)
        whole == IF call.pc = "extracting"
                 THEN SubSeq(call.rows, 1, k - 1) ELSE call.rows
        part  == IF call.pc = "extracting"
                 THEN SubSeq(call.rows[k], 1, Len(call.rows[k]) - Len(call.todo))
                 ELSE <<>>
    IN  ExtractAll(part, WalkRows(whole, EmptyRegistries))

\* what the invocation c answers when it runs alone over its rows
AnswerAlone(c) ==
    LET R == WalkRows(calls[c].rows, EmptyRegistries)
    IN  ConnectedComponentsResponse(R.nodes, R.links)

Isolated ==
    /\ \A c \in CallIds :
          /\ [nodes |-> calls[c].nodes, links |-> calls[c].links]
                = WalkedAlone(c)
          /\ calls[c].response =
                IF calls[c].pc = "done" THEN AnswerAlone(c) ELSE NoResponse
    /\ Cardinality({c \in CallIds : calls[c].pc = "extracting"}) <= 1

\* while c is between two values of a row no other invocation takes a step
Uninterrupted ==
    \A c \in CallIds :
        calls[c].pc = "extracting" =>
            \A d \in CallIds \ {c} : calls'[d] = calls[d]

\* C26 Isolation of concurrent invocations: each invocation starts from
\* empty registries of its own; however two invocations interleave at the
\* awaits of their rows, each holds exactly what the walk of its own rows
\* gives and answers what it would answer alone, and no step of the other
\* falls between the values of a row.
ConcurrentIsolation == []Isolated /\ [][Uninterrupted]_vars

\* C26 witness: A has drained a row with the node n1 as an officer and
\* awaits its next row while B is between the values of a row that holds n1
\* as an entity: each registry holds n1 as its own stream gave it.
ConcurrentIsolationWitness ==
    /\ DOMAIN calls = CallIds
    /\ calls["A"].pc = "awaiting"
    /\ calls["A"].rows = <<<<AltNode("n1")>>>>
    /\ calls["B"].pc = "extracting"
    /\ Len(calls["B"].todo) = 2
    /\ calls["A"].nodes = <<GraphNode(AltNode("n1"))>>
    /\ calls["B"].nodes = <<GraphNode(FullNode("n1"))>>

\* the positions at which the link l stands in the subgraph sub
PlacesIn(sub, l) == {i \in DOMAIN sub.links : sub.links[i] = l}

\* C27 Resolved links: every link whose source and target are both in the
\* node registry stands in exactly one subgraph of the answer, once, and that
\* subgraph holds both its endpoints; a link from a node to itself and
\* several links between the same two nodes are each kept as a link of its
\* own.
ResolvedLinkInOneSubgraph ==
    CypherDone =>
        \A l \in Range(links) :
            Resolved(l) =>
                \E c \in DOMAIN response.components :
                    /\ Cardinality(PlacesIn(response.components[c], l)) = 1
                    /\ l.source \in IdsOf(response.components[c])
                    /\ l.target \in IdsOf(response.components[c])
                    /\ \A d \in DOMAIN response.components \ {c} :
                          PlacesIn(response.components[d], l) = {}

\* C27 witness: two links from n1 to n2 were assembled; the subgraph of n1
\* and n2 holds both.
ResolvedLinkInOneSubgraphWitness ==
    /\ CypherDone
    /\ Len(links) = 2
    /\ \A i \in DOMAIN links : links[i].source = "n1" /\ links[i].target = "n2"
    /\ \E c \in DOMAIN response.components :
          /\ IdsOf(response.components[c]) = {"n1", "n2"}
          /\ response.components[c].links = links

\* a link from n1 to itself stands in the subgraph of n1 alone
SelfLoopKeptReached ==
    /\ CypherDone
    /\ \E l \in Range(links) : l.source = "n1" /\ l.target = "n1"
    /\ \E c \in DOMAIN response.components :
          /\ IdsOf(response.components[c]) = {"n1"}
          /\ Len(response.components[c].links) >= 1

\* the text as the filter reads it
QueryUpper == upper(strip(request.query))

\* the tokens of a text, each by its first and last position
TokenSpans(q) ==
    {r \in (DOMAIN q) \X (DOMAIN q) :
        /\ r[1] <= r[2]
        /\ \A k \in r[1]..r[2] : ~IsSpace(q[k])
        /\ r[1] = 1 \/ IsSpace(q[r[1] - 1])
        /\ r[2] = Len(q) \/ IsSpace(q[r[2] + 1])}

\* the positions at which the keyword starts in the text
KeywordAt(q, keyword) ==
    {i \in 1..(Len(q) - Len(keyword) + 1) :
        SubSeq(q, i, i + Len(keyword) - 1) = keyword}

\* the text holds a keyword, and wherever it holds one a larger token
\* surrounds it
OnlyInsideLargerTokens(q) ==
    /\ \E n \in DOMAIN dangerous_keywords : KeywordAt(q, dangerous_keywords[n]) # {}
    /\ \A n \in DOMAIN dangerous_keywords :
          \A i \in KeywordAt(q, dangerous_keywords[n]) :
              \E r \in TokenSpans(q) :
                  /\ r[1] <= i
                  /\ i + Len(dangerous_keywords[n]) - 1 <= r[2]
                  /\ r[2] - r[1] + 1 > Len(dangerous_keywords[n])

BeginsWithReadClause(q) ==
    \E k \in read_clauses : Len(k) <= Len(q) /\ \A i \in DOMAIN k : q[i] = k[i]

KeywordInTokenRejectedReached ==
    /\ request.query = <<"CREATE", "DELETE">>
    /\ queries = <<>>
    /\ pc = "rejected"
    /\ response.status = 403

\* the message names authentication or password, in whatever letter case
Sensitive(m) ==
    \E i \in DOMAIN m : LowerOf(m[i]) \in {"authentication", "password"}

\* the detail the handler owes to the exception e
DetailOf(e) ==
    IF Sensitive(e.message)
    THEN <<"Query execution failed: ", "Database authentication error">>
    ELSE <<"Query execution failed: ">> \o e.message

\* C29 as stated: whatever is raised while the query is run or its results
\* are walked is answered 500 with the detail "Query execution failed: " and
\* the message, or the fixed text in place of a message that names
\* authentication or password.
AnyExceptionAnswered ==
    raised # NoError =>
        /\ response.status = 500
        /\ response.detail = DetailOf(raised)

\* C29 Error handling: an Exception raised while the query is run or its
\* results are walked is answered 500 with the detail "Query execution
\* failed: " and the message; a message that names authentication or password
\* in any letter case is replaced by the fixed text and no part of it is in
\* the detail; a CancelledError is not caught and no answer is made.
ExceptionAnswered ==
    /\ raised.type = "Exception" =>
          /\ pc = "failed"
          /\ response.status = 500
          /\ response.detail = DetailOf(raised)
          /\ Sensitive(raised.message) =>
                Range(response.detail) \cap Range(raised.message) = {}
    /\ raised.type = "CancelledError" =>
          /\ pc = "cancelled"
          /\ response = NoResponse

\* C29 witness: after a row was walked the stream raised "badPASSWORD" and
\* the answer is 500 with the fixed text.
ExceptionAnsweredWitness ==
    /\ Len(rows) >= 1
    /\ nodes # <<>>
    /\ raised = [type |-> "Exception", message |-> <<"bad", "PASSWORD">>]
    /\ response = [status |-> 500,
                   detail |-> <<"Query execution failed: ",
                                "Database authentication error">>]

\* a message without these words is passed on in the detail
MessagePassedOnReached ==
    /\ raised.type = "Exception"
    /\ response.status = 500
    /\ response.detail = <<"Query execution failed: ", "timeout">>

\* where n steps along the parent map lead from x
RECURSIVE Climb(_, _, _)
Climb(parent, x, n) ==
    IF n = 0 \/ parent[x] = x THEN x ELSE Climb(parent, parent[x], n - 1)

\* the root of x: no path without a cycle is longer than the map
RootIn(parent, x) == Climb(parent, x, Cardinality(DOMAIN parent))

\* defined on the identities of the node registry, into them, and every
\* path along it ends in a root
ParentWellFormed(parent) ==
    /\ DOMAIN parent = Keys(nodes)
    /\ \A x \in DOMAIN parent : parent[x] \in Keys(nodes)
    /\ \A x \in DOMAIN parent : parent[RootIn(parent, x)] = RootIn(parent, x)

\* the steps of one union(x, y): its two finds and its assignment
StepsOfUnion(parent, x, y) ==
    LET fx == find(parent, x)
        fy == find(fx.parent, y)
    IN  <<[op |-> "find", before |-> parent, after |-> fx.parent,
           x |-> x, y |-> x, root |-> fx.root],
          [op |-> "find", before |-> fx.parent, after |-> fy.parent,
           x |-> y, y |-> y, root |-> fy.root],
          [op |-> "union", before |-> fy.parent, after |-> union(parent, x, y),
           x |-> x, y |-> y, root |-> fy.root]>>

\* the steps of the union loop over the link registry
RECURSIVE StepsOfUnionLinks(_, _, _)
StepsOfUnionLinks(parent, ls, ids) ==
    IF ls = <<>> THEN <<>>
    ELSE LET link == Head(ls)
         IN  IF BothEndpointsIn(link, ids)
             THEN StepsOfUnion(parent, link.source, link.target)
                  \o StepsOfUnionLinks(union(parent, link.source, link.target),
                                       Tail(ls), ids)
             ELSE StepsOfUnionLinks(parent, Tail(ls), ids)

\* the finds of the grouping loop over the node registry
RECURSIVE StepsOfGrouping(_, _)
StepsOfGrouping(parent, ids) ==
    IF ids = <<>> THEN <<>>
    ELSE LET f == find(parent, Head(ids))
         IN  <<[op |-> "find", before |-> parent, after |-> f.parent,
                x |-> Head(ids), y |-> Head(ids), root |-> f.root]>>
             \o StepsOfGrouping(f.parent, Tail(ids))

\* every find and union of _find_connected_components on the registries
ParentSteps ==
    StepsOfUnionLinks(InitParent(nodes), links, Keys(nodes))
    \o StepsOfGrouping(UnionLinks(InitParent(nodes), links, Keys(nodes)),
                       IdSeq(nodes))

\* the identities that the step leaves under another root
Rerooted(s) ==
    {z \in Keys(nodes) : RootIn(s.after, z) # RootIn(s.before, z)}

\* the identities that share the root of x before the step
SetOf(s, x) ==
    {z \in Keys(nodes) : RootIn(s.before, z) = RootIn(s.before, x)}

\* C30 Union-find invariant: after the initialisation and after every find
\* and every union the parent map is defined on exactly the identities of the
\* node registry, maps into them and every path along it ends in a root; a
\* find returns the root and its compression leaves every node under its
\* root; the union of two sets changes the root of exactly the nodes of one
\* of them.
UnionFindInvariant ==
    /\ ParentWellFormed(InitParent(nodes))
    /\ \A i \in DOMAIN ParentSteps :
          LET s == ParentSteps[i]
          IN  /\ ParentWellFormed(s.after)
              /\ s.op = "find" =>
                    /\ Rerooted(s) = {}
                    /\ s.root = RootIn(s.before, s.x)
              /\ s.op = "union" =>
                    IF SetOf(s, s.x) = SetOf(s, s.y)
                    THEN \A z \in Keys(nodes) : s.after[z] = s.before[z]
                    ELSE Rerooted(s) \in {SetOf(s, s.x), SetOf(s, s.y)}

\* C30 witness: n1 was put under n2 and n2 under n3: the second union moved
\* the set of n1 and n2 under the root n3, and a later find shortened the
\* path of n1.
UnionFindInvariantWitness ==
    /\ CypherDone
    /\ Len(nodes) = 3
    /\ \E i \in DOMAIN ParentSteps :
          /\ ParentSteps[i].op = "union"
          /\ Rerooted(ParentSteps[i]) = {"n1", "n2"}
    /\ \E i \in DOMAIN ParentSteps :
          /\ ParentSteps[i].op = "find"
          /\ ParentSteps[i].x = "n1"
          /\ ParentSteps[i].before["n1"] = "n2"
          /\ ParentSteps[i].after["n1"] = "n3"

=============================================================================
